---- MODULE Spec2Model ----
(***************************************************************************)
(* Model of judgeflow's evaluation pipeline (src/src/judgeflow/runner.py,  *)
(* src/src/judgeflow/metrics.py).                                          *)
(*                                                                         *)
(* Conventions.                                                            *)
(*  - A text is a sequence of one-character strings.                       *)
(*  - A Python float is an integer number of tenths (8.0 is 80); the       *)
(*    texts of the model carry at most one fractional digit, so the        *)
(*    conversion is exact.                                                 *)
(*  - An Optional value is a sequence: None is <<>>, a present v is <<v>>. *)
(*  - agree_conf, (agree_count / 3) * 100, is kept as the exact fraction   *)
(*    [num |-> agree_count * 100, den |-> 3].                              *)
(***************************************************************************)
EXTENDS Integers, Sequences, FiniteSets, TLC

(***************************************************************************)
(* Bounds of the model.                                                    *)
(***************************************************************************)
MaxRows == 2
MaxMetrics == 2
MaxDepartures == 1
MaxRuns == 2
MaxChats == 2

(***************************************************************************)
(* Optional values.                                                        *)
(***************************************************************************)
None == <<>>
Some(v) == <<v>>
IsNone(o) == o = <<>>
Val(o) == o[1]

(***************************************************************************)
(* Characters and character classes of Python's re module.                 *)
(***************************************************************************)
Digits == <<"0", "1", "2", "3", "4", "5", "6", "7", "8", "9">>
UpperChars == <<"A", "B", "C", "D", "E", "F", "G", "H", "I", "J", "K", "L", "M", "N", "O", "P", "Q", "R", "S", "T", "U", "V", "W", "X", "Y", "Z">>
LowerChars == <<"a", "b", "c", "d", "e", "f", "g", "h", "i", "j", "k", "l", "m", "n", "o", "p", "q", "r", "s", "t", "u", "v", "w", "x", "y", "z">>

IsDigit(c) == \E d \in 1..10 : Digits[d] = c
DigitVal(c) == (CHOOSE d \in 1..10 : Digits[d] = c) - 1
IsUpper(c) == \E k \in 1..26 : UpperChars[k] = c
IsLower(c) == \E k \in 1..26 : LowerChars[k] = c
ToLower(c) == IF IsUpper(c) THEN LowerChars[CHOOSE k \in 1..26 : UpperChars[k] = c] ELSE c
IsWordChar(c) == IsDigit(c) \/ IsUpper(c) \/ IsLower(c) \/ c = "_"
IsSpace(c) == c \in {" ", "\t", "\n", "\r"}

\* \b at the gap before position p (1-based): exactly one side is a word character.
WordBoundary(t, p) ==
    LET before == p > 1 /\ p - 1 <= Len(t) /\ IsWordChar(t[p - 1])
        after == p >= 1 /\ p <= Len(t) /\ IsWordChar(t[p])
    IN before # after

\* End (exclusive) of the greedy run [0-9]* starting at p.
RECURSIVE DigitsEnd(_, _)
DigitsEnd(t, p) ==
    IF p <= Len(t) /\ IsDigit(t[p]) THEN DigitsEnd(t, p + 1) ELSE p

\* End (exclusive) of the greedy optional group (?:\.[0-9]+)? starting at p.
FractionEnd(t, p) ==
    IF p + 1 <= Len(t) /\ t[p] = "." /\ IsDigit(t[p + 1])
    THEN DigitsEnd(t, p + 1)
    ELSE p

\* End (exclusive) of the greedy optional group (?:\.0+)? starting at p.
RECURSIVE ZerosEnd(_, _)
ZerosEnd(t, p) ==
    IF p <= Len(t) /\ t[p] = "0" THEN ZerosEnd(t, p + 1) ELSE p

ZeroFractionEnd(t, p) ==
    IF p + 1 <= Len(t) /\ t[p] = "." /\ t[p + 1] = "0"
    THEN ZerosEnd(t, p + 1)
    ELSE p

\* End (exclusive) of the greedy run [:\s]* starting at p.
RECURSIVE SeparatorsEnd(_, _)
SeparatorsEnd(t, p) ==
    IF p <= Len(t) /\ (t[p] = ":" \/ IsSpace(t[p])) THEN SeparatorsEnd(t, p + 1) ELSE p

\* End (exclusive) of the greedy run \w* starting at p.
RECURSIVE WordEnd(_, _)
WordEnd(t, p) ==
    IF p <= Len(t) /\ IsWordChar(t[p]) THEN WordEnd(t, p + 1) ELSE p

\* The value of a run of digits, as an integer.
RECURSIVE DigitsValue(_)
DigitsValue(s) ==
    IF s = <<>> THEN 0
    ELSE 10 * DigitsValue(SubSeq(s, 1, Len(s) - 1)) + DigitVal(s[Len(s)])

\* Smallest position >= p of a digit of t, 0 when there is none.
RECURSIVE FirstDigit(_, _)
FirstDigit(t, p) ==
    IF p > Len(t) THEN 0
    ELSE IF IsDigit(t[p]) THEN p ELSE FirstDigit(t, p + 1)

\* Smallest position >= p of a word character of t, 0 when there is none.
RECURSIVE FirstWordChar(_, _)
FirstWordChar(t, p) ==
    IF p > Len(t) THEN 0
    ELSE IF IsWordChar(t[p]) THEN p ELSE FirstWordChar(t, p + 1)

Min(S) == CHOOSE x \in S : \A y \in S : x <= y

(***************************************************************************)
(* float(): the strings the model converts are regex groups.  A group of   *)
(* digits with an optional fraction converts; any other group (letters)    *)
(* raises ValueError.                                                      *)
(***************************************************************************)
FloatOk(s) ==
    /\ Len(s) > 0
    /\ IsDigit(s[1])
    /\ FractionEnd(s, DigitsEnd(s, 1)) = Len(s) + 1

Float(s) ==
    LET e == DigitsEnd(s, 1)
    IN 10 * DigitsValue(SubSeq(s, 1, e - 1))
        + (IF e < Len(s) THEN DigitVal(s[e + 1]) ELSE 0)

(***************************************************************************)
(* The metric patterns of the model, and re.search(pattern, text).group(1) *)
(* for each: None when there is no match.                                  *)
(***************************************************************************)
PatNumber == <<"(\\d+(\\.\\d+)?)">>
PatWord == <<"(\\w+)">>

SearchNumber(t) ==
    LET q == FirstDigit(t, 1)
    IN IF q = 0 THEN None
       ELSE Some(SubSeq(t, q, FractionEnd(t, DigitsEnd(t, q)) - 1))

SearchWord(t) ==
    LET q == FirstWordChar(t, 1)
    IN IF q = 0 THEN None ELSE Some(SubSeq(t, q, WordEnd(t, q) - 1))

ReSearchGroup1(pattern, t) ==
    IF pattern = PatNumber THEN SearchNumber(t)
    ELSE IF pattern = PatWord THEN SearchWord(t)
    ELSE None

(***************************************************************************)
(* MetricSpec.parse_score: the result is [ok |-> TRUE, value |-> float] or *)
(* [ok |-> FALSE, error |-> "ValueError"].                                 *)
(***************************************************************************)
RegexPrefix == <<"r", "e", "g", "e", "x", ":">>

StartsWith(s, prefix) ==
    Len(s) >= Len(prefix) /\ SubSeq(s, 1, Len(prefix)) = prefix

Returned(v) == [ok |-> TRUE, value |-> v]
Raised(e) == [ok |-> FALSE, error |-> e]

parse_score(parser, text) ==
    IF StartsWith(parser, RegexPrefix)
    THEN LET pattern == SubSeq(parser, 7, Len(parser))
             group == ReSearchGroup1(pattern, text)
         IN IF ~IsNone(group)
            THEN IF FloatOk(Val(group))
                 THEN Returned(Float(Val(group)))
                 ELSE Raised("ValueError")
            ELSE Raised("ValueError")
    ELSE Raised("ValueError")

(***************************************************************************)
(* Revision extraction (runner.py lines 69-84).                            *)
(***************************************************************************)
RevisedLabel == <<"r", "e", "v", "i", "s", "e", "d", " ", "s", "c", "o", "r", "e">>

\* "Revised score" matches at p, ignoring case.
LabelAt(t, p) ==
    /\ p + Len(RevisedLabel) - 1 <= Len(t)
    /\ \A k \in 1..Len(RevisedLabel) : ToLower(t[p + k - 1]) = RevisedLabel[k]

\* Revised score[:\s]*([0-9]+(?:\.[0-9]+)?) matches at p.
LabelledAt(t, p) ==
    /\ LabelAt(t, p)
    /\ LET q == SeparatorsEnd(t, p + Len(RevisedLabel))
       IN q <= Len(t) /\ IsDigit(t[q])

SearchLabelled(t) ==
    LET S == {p \in 1..Len(t) : LabelledAt(t, p)}
    IN IF S = {} THEN None
       ELSE LET q == SeparatorsEnd(t, Min(S) + Len(RevisedLabel))
            IN Some(SubSeq(t, q, FractionEnd(t, DigitsEnd(t, q)) - 1))

\* End (exclusive) of the match of \b([0-9](?:\.[0-9]+)?|10(?:\.0+)?)\b at p,
\* 0 when it does not match there.  The first alternative is tried first, with
\* its fraction and then without; then the second alternative likewise.
StandaloneEnd(t, p) ==
    IF ~WordBoundary(t, p) THEN 0
    ELSE LET a1 == FractionEnd(t, p + 1)
             a2 == ZeroFractionEnd(t, p + 2)
             ten == p + 1 <= Len(t) /\ t[p] = "1" /\ t[p + 1] = "0"
         IN IF IsDigit(t[p]) /\ a1 > p + 1 /\ WordBoundary(t, a1) THEN a1
            ELSE IF IsDigit(t[p]) /\ WordBoundary(t, p + 1) THEN p + 1
            ELSE IF ten /\ a2 > p + 2 /\ WordBoundary(t, a2) THEN a2
            ELSE IF ten /\ WordBoundary(t, p + 2) THEN p + 2
            ELSE 0

SearchStandalone(t) ==
    LET S == {p \in 1..Len(t) : StandaloneEnd(t, p) # 0}
    IN IF S = {} THEN None
       ELSE Some(SubSeq(t, Min(S), StandaloneEnd(t, Min(S)) - 1))

\* Changed: the first standalone number is tried before the labelled form.
extract_revision_StandaloneFirst(t) ==
    LET m1 == SearchLabelled(t)
        m2 == SearchStandalone(t)
    IN IF ~IsNone(m2) THEN Some(Float(Val(m2)))
       ELSE IF ~IsNone(m1) THEN Some(Float(Val(m1)))
       ELSE None

extract_revision(t) ==
    LET m1 == SearchLabelled(t)
        m2 == SearchStandalone(t)
    IN IF ~IsNone(m1) THEN Some(Float(Val(m1)))
       ELSE IF ~IsNone(m2) THEN Some(Float(Val(m2)))
       ELSE None

(***************************************************************************)
(* Confidence extraction (runner.py lines 100-106).                        *)
(***************************************************************************)
\* ([0-9]{1,3}(?:\.[0-9]+)?)
SearchConfidence(t) ==
    LET q == FirstDigit(t, 1)
        d == DigitsEnd(t, q)
        e == IF d > q + 3 THEN q + 3 ELSE d
    IN IF q = 0 THEN None
       ELSE Some(SubSeq(t, q, FractionEnd(t, e) - 1))

\* Changed: the value is not bounded above.
Clamp_Unbounded(v) == IF v < 0 THEN 0 ELSE v

Clamp(v) == IF v > 1000 THEN 1000 ELSE IF v < 0 THEN 0 ELSE v

extract_confidence(t) ==
    LET m == SearchConfidence(t)
    IN IF ~IsNone(m) THEN Some(Clamp(Float(Val(m)))) ELSE None

(***************************************************************************)
(* Texts the judge returns in the model.                                   *)
(***************************************************************************)
TScore8 == <<"S", "c", "o", "r", "e", ":", " ", "8">>
TBare9 == <<"9">>
TScore95 == <<"S", "c", "o", "r", "e", ":", " ", "9", ".", "5">>
TNoScore == <<"n", "/", "a">>
TRevised9 == <<"R", "e", "v", "i", "s", "e", "d", " ", "s", "c", "o", "r", "e", ":", " ", "9">>
TNoChange == <<"N", "o", " ", "c", "h", "a", "n", "g", "e", ".">>
TStrayRevised == <<"9", "?", " ", "r", "e", "v", "i", "s", "e", "d", " ", "s", "c", "o", "r", "e", " ", "6">>
TLabelNoNumber == <<"R", "e", "v", "i", "s", "e", "d", " ", "s", "c", "o", "r", "e", ":", " ", "n", "/", "a", ",", " ", "7">>
TConf90 == <<"9", "0", "%", " ", "c", "o", "n", "f", "i", "d", "e", "n", "t">>
TConf120 == <<"1", "2", "0", "%", " ", "s", "u", "r", "e">>
TEmpty == <<>>

\* The judge of the plain scenario answers each stage as asked; its three
\* resamples differ from one another, as samples of a model do.  The other
\* responses are those a call may return instead, at the price of one
\* departure (see MaxDepartures).
NominalResponse(stage, seed) ==
    CASE stage = "score" -> TScore8
      [] stage = "reflection" -> TRevised9
      [] stage = "confidence" -> TConf90
      [] stage = "agreement" ->
            IF seed = 1 THEN TScore8 ELSE IF seed = 2 THEN TBare9 ELSE TScore95

OtherResponses(stage) ==
    CASE stage = "score" -> {TNoScore}
      [] stage = "reflection" -> {TNoChange, TStrayRevised, TLabelNoNumber}
      [] stage = "confidence" -> {TConf120, TEmpty}
      [] stage = "agreement" -> {TScore8, TNoScore}

(***************************************************************************)
(* Metric specifications (MetricSpec, metrics.py lines 7-14).  A template  *)
(* is its name, the placeholders it names and the length of its literal    *)
(* text.                                                                   *)
(***************************************************************************)
Template(name, fields, len) == [name |-> name, fields |-> fields, len |-> len]

MetricPlain ==
    [name |-> "accuracy",
     prompt_template |-> Template("accuracy.prompt", {"question", "answer"}, 200),
     reflection_prompt |-> Template("accuracy.reflection", {"question", "answer", "score"}, 300),
     confidence_prompt |-> Template("accuracy.confidence", {"answer", "score"}, 100),
     parser |-> RegexPrefix \o PatNumber]

MetricHelpful ==
    [name |-> "helpfulness",
     prompt_template |-> Template("helpfulness.prompt", {"question", "answer", "context"}, 200),
     reflection_prompt |-> Template("helpfulness.reflection", {"question", "answer", "score"}, 300),
     confidence_prompt |-> Template("helpfulness.confidence", {"answer", "score"}, 100),
     parser |-> RegexPrefix \o PatNumber]

\* prompt_template names a column "reference", which no dataset has.
MetricReference ==
    [name |-> "grounding",
     prompt_template |-> Template("grounding.prompt", {"question", "answer", "reference"}, 200),
     reflection_prompt |-> Template("grounding.reflection", {"question", "answer", "score"}, 300),
     confidence_prompt |-> Template("grounding.confidence", {"answer", "score"}, 100),
     parser |-> RegexPrefix \o PatNumber]

\* Only reflection_prompt names the column "reference".
MetricReflReference ==
    [name |-> "relevance",
     prompt_template |-> Template("relevance.prompt", {"question", "answer"}, 200),
     reflection_prompt |-> Template("relevance.reflection", {"reference", "answer", "score"}, 300),
     confidence_prompt |-> Template("relevance.confidence", {"answer", "score"}, 100),
     parser |-> RegexPrefix \o PatNumber]

\* Only confidence_prompt names the column "reference".
MetricConfReference ==
    [name |-> "coherence",
     prompt_template |-> Template("coherence.prompt", {"question", "answer"}, 200),
     reflection_prompt |-> Template("coherence.reflection", {"question", "answer", "score"}, 300),
     confidence_prompt |-> Template("coherence.confidence", {"reference", "answer", "score"}, 100),
     parser |-> RegexPrefix \o PatNumber]

\* The pattern's group captures a word, which need not be a number.
MetricWord ==
    [name |-> "fluency",
     prompt_template |-> Template("fluency.prompt", {"question", "answer"}, 200),
     reflection_prompt |-> Template("fluency.reflection", {"question", "answer", "score"}, 300),
     confidence_prompt |-> Template("fluency.confidence", {"answer", "score"}, 100),
     parser |-> RegexPrefix \o PatWord]

\* A parser directive that is not of the form regex:<pattern>.
MetricFunction ==
    [name |-> "toxicity",
     prompt_template |-> Template("toxicity.prompt", {"question", "answer"}, 200),
     reflection_prompt |-> Template("toxicity.reflection", {"question", "answer", "score"}, 300),
     confidence_prompt |-> Template("toxicity.confidence", {"answer", "score"}, 100),
     parser |-> <<"f", "u", "n", "c", ":", "t", "o", "x">>]

PlainMetrics == {MetricPlain, MetricHelpful}

\* The metrics of the model, in the order a registry lists them.
Catalogue ==
    <<MetricPlain, MetricReference, MetricReflReference, MetricConfReference,
      MetricWord, MetricFunction, MetricHelpful>>

(***************************************************************************)
(* Datasets: a DataFrame has the same columns in every row.  A row is      *)
(* verbose (an answer longer than max_chars) or terse.                     *)
(***************************************************************************)
AllColumns == {"id", "question", "answer", "context"}
ColumnSets == {AllColumns, AllColumns \ {"id"}}
RowKinds == {"terse", "verbose"}

SeqsUpTo(S, n) == UNION {[1..k -> S] : k \in 0..n}
Range(s) == {s[k] : k \in DOMAIN s}

CellLen(kind, column) ==
    CASE column = "id" -> 2
      [] column = "question" -> 50
      [] column = "context" -> 200
      [] column = "answer" -> IF kind = "verbose" THEN 1500 ELSE 100

\* The row at position n of the frame: column |-> cell.
RowOf(ds, n) ==
    [c \in ds.columns |-> [tok |-> <<c, n>>, len |-> CellLen(ds.rows[n], c)]]

\* str(float): "8.0", "0.0", "10.0".
FloatStrLen(v) == IF v >= 100 THEN 4 ELSE 3

\* dict(row) with context['score'] = score_value.
WithScore(row, v) ==
    [c \in (DOMAIN row) \cup {"score"} |->
        IF c = "score" THEN [tok |-> <<"score", v>>, len |-> FloatStrLen(v)] ELSE row[c]]

RECURSIVE SumLen(_, _)
SumLen(fields, context) ==
    IF fields = {} THEN 0
    ELSE LET f == CHOOSE x \in fields : TRUE
         IN context[f].len + SumLen(fields \ {f}, context)

\* str.format(**context): KeyError when a placeholder is no key of context.
Format(template, context) ==
    IF template.fields \subseteq DOMAIN context
    THEN Returned([template |-> template.name,
                   args |-> [f \in template.fields |-> context[f].tok],
                   len |-> template.len + SumLen(template.fields, context)])
    ELSE Raised("KeyError")

max_chars == 1024

\* Changed: the prompt is kept whole.
Truncate_Whole(p) == p

\* reflection_prompt[:max_chars]
Truncate(p) == [p EXCEPT !.len = IF @ > max_chars THEN max_chars ELSE @]

\* str(row.get("id", "unknown"))
RowId(row) == IF "id" \in DOMAIN row THEN row["id"].tok ELSE <<"unknown">>

(***************************************************************************)
(* The sink: the csv file at csv_path.                                     *)
(***************************************************************************)
Header ==
    <<"row_id", "metric", "score", "revised_score", "revision_delta", "critique",
      "self_conf", "agree_conf", "timestamp">>

NoFile == [exists |-> FALSE, lines |-> <<>>]
EmptyFile == [exists |-> TRUE, lines |-> <<>>]

(***************************************************************************)
(* State.                                                                  *)
(*   dataset, metrics  the frame read from dataset_path and self.metrics   *)
(*   csv               the file at self.csv_path                           *)
(*   runs              calls made that write to the file at csv_path       *)
(*   departures        departures from the plain scenario so far (see      *)
(*                     Departures and MaxDepartures)                       *)
(*   pc                position of the running evaluate_dataset            *)
(*   df                evaluate_dataset's frame, as row numbers            *)
(*   rowIdx, metIdx    positions of the two loops                          *)
(*   scores            evaluate_dataset's list                             *)
(*   row_scores        evaluate_row's list                                 *)
(*   frame             the locals of _apply_metric                         *)
(*   error             the exception evaluate_dataset raised, if any       *)
(*   calls             history of the run: the calls of _apply_metric, in  *)
(*                     order, and whether each has returned its record     *)
(*   log               history of the latest call of _apply_metric: its    *)
(*                     begin and end and its chat traffic                  *)
(* and of LLMAdapter.chat under its retry decorator (llm.py):              *)
(*   chats             calls of LLMAdapter.chat made                       *)
(*   chat_pc           position of the running call                        *)
(*   attempt_number    the attempt the call is at                          *)
(*   outcome           result of the call: what it returned or raised      *)
(*   attempts, sleeps  history of the call: the outcome of each attempt    *)
(*                     and the waits slept between attempts                *)
(***************************************************************************)
VARIABLES dataset, metrics, csv, runs, departures, pc, df, rowIdx, metIdx,
          scores, row_scores, frame, error, calls, log,
          chats, chat_pc, attempt_number, outcome, attempts, sleeps

chatVars == <<chats, chat_pc, attempt_number, outcome, attempts, sleeps>>

runnerVars == <<dataset, metrics, csv, runs, departures, pc, df, rowIdx, metIdx,
                scores, row_scores, frame, error, calls, log>>

vars == <<runnerVars, chatVars>>

BlankFrame ==
    [prompt |-> None, score_value |-> None, reflection_prompt |-> None,
     revised_score |-> None, revision_delta |-> None, critique |-> None,
     confidence_prompt |-> None, self_conf |-> None,
     resample_scores |-> <<>>, seed |-> 0]

Datasets == {[columns |-> c, rows |-> r] : c \in ColumnSets, r \in SeqsUpTo(RowKinds, MaxRows)}
\* A registry lists some metrics of the catalogue, each once.
Registry(picked) ==
    LET Picked(m) == m \in picked
    IN SelectSeq(Catalogue, Picked)

(***************************************************************************)
(* load_registry (metrics.py lines 29-57).  A file of the metrics          *)
(* directory has an extension and a content: text yaml.safe_load rejects   *)
(* (YAMLError), an empty document (None), or a mapping.  A mapping becomes  *)
(* a MetricSpec when it has every field of the class; the fields are       *)
(* strings and parser is any string.  os.listdir gives the files in an     *)
(* order of its own; the registry is in that order, which the model takes  *)
(* to be the order of the catalogue.                                       *)
(***************************************************************************)
MetricFields ==
    {"name", "prompt_template", "reflection_prompt", "confidence_prompt", "parser"}

MetricFile(m) == [ext |-> ".yaml", yaml |-> "mapping", data |-> Some(m)]
MalformedFile == [ext |-> ".yaml", yaml |-> "error", data |-> None]
BlankFile == [ext |-> ".yml", yaml |-> "empty", data |-> None]
PartialFile == [ext |-> ".yaml", yaml |-> "mapping", data |-> Some([name |-> "bias"])]
NotesFile == [ext |-> ".md", yaml |-> "mapping", data |-> Some(MetricPlain)]

OtherFiles == {MalformedFile, BlankFile, PartialFile, NotesFile}

\* MetricSpec(**data): pydantic raises ValidationError when a field is missing.
Validate(data) ==
    IF MetricFields \subseteq DOMAIN data THEN Returned(data) ELSE Raised("ValidationError")

\* The file adds a MetricSpec to metric_specs.
Loads(file) ==
    /\ file.ext \in {".yaml", ".yml"}
    /\ file.yaml = "mapping"
    /\ Validate(Val(file.data)).ok

load_registry(listing) ==
    LET loaded == SelectSeq(listing, Loads)
    IN [k \in DOMAIN loaded |-> Val(loaded[k].data)]

\* The listings of the metrics directory: metric files of the catalogue and
\* at most one file of another kind, in any place.
InsertAt(s, k, x) == SubSeq(s, 1, k - 1) \o <<x>> \o SubSeq(s, k, Len(s))

MetricListings ==
    {[k \in DOMAIN r |-> MetricFile(r[k])] :
        r \in {Registry(picked) :
                  picked \in {S \in SUBSET Range(Catalogue) : Cardinality(S) <= MaxMetrics}}}

Listings ==
    MetricListings \cup
    UNION {{InsertAt(l, k, f) : k \in 1..(Len(l) + 1), f \in OtherFiles} : l \in MetricListings}

Registries == {load_registry(listing) : listing \in Listings}

\* How far a scenario departs from the plain one (plain metrics, verbose
\* rows, every column present, no file at csv_path).
Departures(ds, reg, file) ==
    Cardinality({n \in DOMAIN ds.rows : ds.rows[n] # "verbose"})
    + Cardinality({j \in DOMAIN reg : reg[j] \notin PlainMetrics})
    + (IF ds.columns # AllColumns THEN 1 ELSE 0)
    + (IF file # NoFile THEN 1 ELSE 0)

\* No call of LLMAdapter.chat has been made.
ChatIdle ==
    /\ chats = 0
    /\ chat_pc = "idle"
    /\ attempt_number = 0
    /\ outcome = None
    /\ attempts = <<>>
    /\ sleeps = <<>>

\* No call of evaluate_dataset has been made.
RunnerIdle ==
    /\ runs = 0
    /\ pc = "idle"
    /\ df = <<>>
    /\ rowIdx = 0
    /\ metIdx = 0
    /\ scores = <<>>
    /\ row_scores = <<>>
    /\ frame = BlankFrame
    /\ error = None
    /\ calls = <<>>
    /\ log = <<>>

Init ==
    /\ dataset \in Datasets
    /\ metrics \in Registries
    /\ csv \in {NoFile, EmptyFile}
    /\ Departures(dataset, metrics, csv) <= MaxDepartures
    /\ departures = Departures(dataset, metrics, csv)
    /\ RunnerIdle
    /\ ChatIdle

row == RowOf(dataset, df[rowIdx])
metric == metrics[metIdx]

\* Events of the log: "begin" and "end" of _apply_metric for a pair, a chat
\* "request" with its prompt, its "response" with the text or its "failure"
\* with the exception, and "abort" when an exception leaves _apply_metric.
Event(ev, stage, p, text, exc) ==
    [ev |-> ev, row |-> rowIdx, metric |-> metIdx, stage |-> stage, prompt |-> p,
     text |-> text, exc |-> exc]

Begin == Event("begin", "score", None, None, "")
End == Event("end", "agreement", None, None, "")
Request(stage, p) == Event("request", stage, p, None, "")
Response(stage, text) == Event("response", stage, None, Some(text), "")
Failure(stage, e) == Event("failure", stage, None, None, e)
Abort(stage, e) == Event("abort", stage, None, None, e)

\* The texts a chat call may return now.
Responses(stage) ==
    {NominalResponse(stage, frame.seed)}
        \cup (IF departures < MaxDepartures THEN OtherResponses(stage) ELSE {})

Spend(text, stage) ==
    IF text = NominalResponse(stage, frame.seed) THEN departures ELSE departures + 1

\* df.head(3)
head_rows == 3
\* Changed: the last rows of the frame are taken, not the first.
FrameHead_Tail(n) ==
    [k \in 1..(IF n < head_rows THEN n ELSE head_rows) |->
        (IF n < head_rows THEN 0 ELSE n - head_rows) + k]

FrameHead(n) == [k \in 1..(IF n < head_rows THEN n ELSE head_rows) |-> k]

(***************************************************************************)
(* evaluate_dataset and evaluate_row.                                      *)
(***************************************************************************)
\* An exception leaves _apply_metric, evaluate_row and evaluate_dataset:
\* none of them catches it.
Propagate(e, stage, sofar) ==
    /\ pc' = "raised"
    /\ error' = Some(e)
    /\ log' = Append(sofar, Abort(stage, e))

EvaluateDataset(q) ==
    /\ pc \in {"idle", "returned", "raised"}
    /\ runs < MaxRuns
    /\ runs' = runs + 1
    /\ df' = IF q THEN FrameHead(Len(dataset.rows)) ELSE [k \in 1..Len(dataset.rows) |-> k]
    /\ scores' = <<>>
    /\ row_scores' = <<>>
    /\ rowIdx' = 1
    /\ metIdx' = 0
    /\ frame' = BlankFrame
    /\ error' = None
    /\ calls' = <<>>
    /\ log' = <<>>
    /\ pc' = "rows"
    /\ UNCHANGED <<chatVars, dataset, metrics, csv, departures>>

\* for _, row in df.iterrows(): row_scores = await self.evaluate_row(row)
ForRow ==
    /\ pc = "rows"
    /\ IF rowIdx <= Len(df)
       THEN /\ pc' = "metrics"
            /\ metIdx' = 1
            /\ row_scores' = <<>>
       ELSE /\ pc' = "write"
            /\ UNCHANGED <<metIdx, row_scores>>
    /\ UNCHANGED <<chatVars, dataset, metrics, calls, csv, runs, departures, df, rowIdx, scores,
                   frame, error, log>>

\* Changed: the records of a row are written to the file when the row is done.
ForMetric_WriteRow ==
    /\ pc = "metrics"
    /\ IF metIdx <= Len(metrics)
       THEN /\ pc' = "score_prompt"
            /\ frame' = BlankFrame
            /\ calls' = Append(calls, [row |-> rowIdx, metric |-> metIdx, returned |-> FALSE])
            /\ log' = <<Begin>>
            /\ UNCHANGED <<scores, row_scores, rowIdx, csv>>
       ELSE /\ pc' = "rows"
            /\ scores' = scores \o row_scores
            /\ row_scores' = <<>>
            /\ rowIdx' = rowIdx + 1
            /\ csv' = [exists |-> TRUE,
                       lines |-> csv.lines \o (IF ~csv.exists THEN <<Header>> ELSE <<>>)]
            /\ UNCHANGED <<frame, calls, log>>
    /\ UNCHANGED <<chatVars, dataset, metrics, runs, departures, df, metIdx, error>>

\* for metric in self.metrics: ...; return scores; scores.extend(row_scores).
\* row_scores stands for evaluate_row's list, which is gone once it returned.
ForMetric ==
    /\ pc = "metrics"
    /\ IF metIdx <= Len(metrics)
       THEN /\ pc' = "score_prompt"
            /\ frame' = BlankFrame
            /\ calls' = Append(calls, [row |-> rowIdx, metric |-> metIdx, returned |-> FALSE])
            /\ log' = <<Begin>>
            /\ UNCHANGED <<scores, row_scores, rowIdx>>
       ELSE /\ pc' = "rows"
            /\ scores' = scores \o row_scores
            /\ row_scores' = <<>>
            /\ rowIdx' = rowIdx + 1
            /\ UNCHANGED <<frame, calls, log>>
    /\ UNCHANGED <<chatVars, dataset, metrics, csv, runs, departures, df, metIdx, error>>

(***************************************************************************)
(* _apply_metric, stage 1: score.                                          *)
(***************************************************************************)
ScorePrompt ==
    /\ pc = "score_prompt"
    /\ LET r == Format(metric.prompt_template, row)
       IN IF r.ok
          THEN /\ frame' = [frame EXCEPT !.prompt = Some(r.value)]
               /\ log' = Append(log, Request("score", Some(r.value)))
               /\ pc' = "score_chat"
               /\ UNCHANGED error
          ELSE /\ Propagate(r.error, "score", log)
               /\ UNCHANGED frame
    /\ UNCHANGED <<chatVars, dataset, metrics, calls, csv, runs, departures, df, rowIdx, metIdx,
                   scores, row_scores>>

\* Changed: a score that does not parse defaults to the middle of the scale.
ScoreValue_Midpoint(r) == IF r.ok THEN r.value ELSE 50

\* except ValueError: score_value = 0.0
ScoreValue(r) == IF r.ok THEN r.value ELSE 0

ScoreReturn(text) ==
    /\ pc = "score_chat"
    /\ text \in Responses("score")
    /\ departures' = Spend(text, "score")
    /\ frame' = [frame EXCEPT !.score_value = Some(ScoreValue(parse_score(metric.parser, text)))]
    /\ log' = Append(log, Response("score", text))
    /\ pc' = "reflection_prompt"
    /\ UNCHANGED <<chatVars, dataset, metrics, calls, csv, runs, df, rowIdx, metIdx, scores,
                   row_scores, error>>

ScoreRaise ==
    /\ pc = "score_chat"
    /\ departures < MaxDepartures
    /\ departures' = departures + 1
    /\ Propagate("APIError", "score", Append(log, Failure("score", "APIError")))
    /\ UNCHANGED <<chatVars, dataset, metrics, calls, csv, runs, df, rowIdx, metIdx, scores,
                   row_scores, frame>>

(***************************************************************************)
(* Stage 2: reflection and revision.                                       *)
(***************************************************************************)
ReflectionPrompt ==
    /\ pc = "reflection_prompt"
    /\ LET r == Format(metric.reflection_prompt, WithScore(row, Val(frame.score_value)))
       IN IF r.ok
          THEN /\ frame' = [frame EXCEPT !.reflection_prompt = Some(Truncate(r.value))]
               /\ log' = Append(log, Request("reflection", Some(Truncate(r.value))))
               /\ pc' = "reflection_chat"
               /\ UNCHANGED error
          ELSE /\ Propagate(r.error, "reflection", log)
               /\ UNCHANGED frame
    /\ UNCHANGED <<chatVars, dataset, metrics, calls, csv, runs, departures, df, rowIdx, metIdx,
                   scores, row_scores>>

\* Changed: the delta is taken the other way round.
RevisionDelta_Reversed(revised, score) ==
    IF ~IsNone(revised) THEN Some(score - Val(revised)) ELSE None

RevisionDelta(revised, score) ==
    IF ~IsNone(revised) THEN Some(Val(revised) - score) ELSE None

\* Changed: the critique is stored only when a revised score was extracted.
ReflectionReturn_CritiqueIfRevised(text) ==
    /\ pc = "reflection_chat"
    /\ text \in Responses("reflection")
    /\ departures' = Spend(text, "reflection")
    /\ frame' = [frame EXCEPT
           !.revised_score = extract_revision(text),
           !.revision_delta = RevisionDelta(extract_revision(text), Val(frame.score_value)),
           !.critique = IF IsNone(extract_revision(text)) THEN None ELSE Some(text)]
    /\ log' = Append(log, Response("reflection", text))
    /\ pc' = "confidence_prompt"
    /\ UNCHANGED <<chatVars, dataset, metrics, calls, csv, runs, df, rowIdx, metIdx, scores,
                   row_scores, error>>

ReflectionReturn(text) ==
    /\ pc = "reflection_chat"
    /\ text \in Responses("reflection")
    /\ departures' = Spend(text, "reflection")
    /\ frame' = [frame EXCEPT
           !.revised_score = extract_revision(text),
           !.revision_delta = RevisionDelta(extract_revision(text), Val(frame.score_value)),
           !.critique = Some(text)]
    /\ log' = Append(log, Response("reflection", text))
    /\ pc' = "confidence_prompt"
    /\ UNCHANGED <<chatVars, dataset, metrics, calls, csv, runs, df, rowIdx, metIdx, scores,
                   row_scores, error>>

ReflectionRaise ==
    /\ pc = "reflection_chat"
    /\ departures < MaxDepartures
    /\ departures' = departures + 1
    /\ Propagate("APIError", "reflection", Append(log, Failure("reflection", "APIError")))
    /\ UNCHANGED <<chatVars, dataset, metrics, calls, csv, runs, df, rowIdx, metIdx, scores,
                   row_scores, frame>>

(***************************************************************************)
(* Stage 3: self-reported confidence.                                      *)
(***************************************************************************)
ConfidencePrompt ==
    /\ pc = "confidence_prompt"
    /\ LET r == Format(metric.confidence_prompt, WithScore(row, Val(frame.score_value)))
       IN IF r.ok
          THEN /\ frame' = [frame EXCEPT !.confidence_prompt = Some(r.value)]
               /\ log' = Append(log, Request("confidence", Some(r.value)))
               /\ pc' = "confidence_chat"
               /\ UNCHANGED error
          ELSE /\ Propagate(r.error, "confidence", log)
               /\ UNCHANGED frame
    /\ UNCHANGED <<chatVars, dataset, metrics, calls, csv, runs, departures, df, rowIdx, metIdx,
                   scores, row_scores>>

ConfidenceReturn(text) ==
    /\ pc = "confidence_chat"
    /\ text \in Responses("confidence")
    /\ departures' = Spend(text, "confidence")
    /\ frame' = [frame EXCEPT !.self_conf = extract_confidence(text), !.seed = 1]
    /\ log' = Append(log, Response("confidence", text))
    /\ pc' = "resample"
    /\ UNCHANGED <<chatVars, dataset, metrics, calls, csv, runs, df, rowIdx, metIdx, scores,
                   row_scores, error>>

\* Changed: a failed confidence call ends the pair without the agreement stage.
ConfidenceRaise_SkipAgreement ==
    /\ pc = "confidence_chat"
    /\ departures < MaxDepartures
    /\ departures' = departures + 1
    /\ frame' = [frame EXCEPT !.self_conf = None, !.seed = Len(<<21, 42, 84>>) + 1]
    /\ log' = Append(log, Failure("confidence", "APIError"))
    /\ pc' = "resample"
    /\ UNCHANGED <<chatVars, dataset, metrics, calls, csv, runs, df, rowIdx, metIdx, scores,
                   row_scores, error>>

\* Changed: the confidence call is outside the try, as the score call is.
ConfidenceRaise_Propagate ==
    /\ pc = "confidence_chat"
    /\ departures < MaxDepartures
    /\ departures' = departures + 1
    /\ Propagate("APIError", "confidence", Append(log, Failure("confidence", "APIError")))
    /\ UNCHANGED <<chatVars, dataset, metrics, calls, csv, runs, df, rowIdx, metIdx, scores,
                   row_scores, frame>>

\* except Exception: self_conf = None
ConfidenceRaise ==
    /\ pc = "confidence_chat"
    /\ departures < MaxDepartures
    /\ departures' = departures + 1
    /\ frame' = [frame EXCEPT !.self_conf = None, !.seed = 1]
    /\ log' = Append(log, Failure("confidence", "APIError"))
    /\ pc' = "resample"
    /\ UNCHANGED <<chatVars, dataset, metrics, calls, csv, runs, df, rowIdx, metIdx, scores,
                   row_scores, error>>

(***************************************************************************)
(* Stage 4: agreement of three resamples.                                  *)
(***************************************************************************)
Seeds == <<21, 42, 84>>

\* Changed: the resamples send the reflection prompt.
Resample_ReflectionPrompt ==
    /\ pc = "resample"
    /\ frame.seed <= Len(Seeds)
    /\ log' = Append(log, Request("agreement", frame.reflection_prompt))
    /\ pc' = "resample_chat"
    /\ UNCHANGED <<chatVars, dataset, metrics, calls, csv, runs, departures, df, rowIdx, metIdx,
                   scores, row_scores, frame, error>>

\* for _ in [21, 42, 84]: resample_response = await chat(prompt)
Resample ==
    /\ pc = "resample"
    /\ frame.seed <= Len(Seeds)
    /\ log' = Append(log, Request("agreement", frame.prompt))
    /\ pc' = "resample_chat"
    /\ UNCHANGED <<chatVars, dataset, metrics, calls, csv, runs, departures, df, rowIdx, metIdx,
                   scores, row_scores, frame, error>>

Kept(samples, r) == IF r.ok THEN Append(samples, r.value) ELSE samples

ResampleReturn(text) ==
    /\ pc = "resample_chat"
    /\ text \in Responses("agreement")
    /\ departures' = Spend(text, "agreement")
    /\ frame' = [frame EXCEPT
           !.resample_scores = Kept(@, parse_score(metric.parser, text)),
           !.seed = @ + 1]
    /\ log' = Append(log, Response("agreement", text))
    /\ pc' = "resample"
    /\ UNCHANGED <<chatVars, dataset, metrics, calls, csv, runs, df, rowIdx, metIdx, scores,
                   row_scores, error>>

\* Changed: a resample that failed is asked for again.
ResampleRaise_Retry ==
    /\ pc = "resample_chat"
    /\ departures < MaxDepartures
    /\ departures' = departures + 1
    /\ log' = Append(log, Failure("agreement", "APIError"))
    /\ pc' = "resample"
    /\ UNCHANGED <<chatVars, dataset, metrics, calls, csv, runs, df, rowIdx, metIdx, scores,
                   row_scores, frame, error>>

\* except Exception: the sample is dropped
ResampleRaise ==
    /\ pc = "resample_chat"
    /\ departures < MaxDepartures
    /\ departures' = departures + 1
    /\ frame' = [frame EXCEPT !.seed = @ + 1]
    /\ log' = Append(log, Failure("agreement", "APIError"))
    /\ pc' = "resample"
    /\ UNCHANGED <<chatVars, dataset, metrics, calls, csv, runs, df, rowIdx, metIdx, scores,
                   row_scores, error>>

Abs(x) == IF x < 0 THEN -x ELSE x

\* abs(s - score_value) <= 1.0
Agrees(s, score) == Abs(s - score) <= 10

AgreeCount(samples, score) ==
    Cardinality({n \in DOMAIN samples : Agrees(samples[n], score)})

\* Changed: no kept sample counts as no agreement.
AgreeConf_ZeroWhenEmpty(samples, score) ==
    Some([num |-> AgreeCount(samples, score) * 100, den |-> 3])

\* Changed: the denominator is the number of kept samples.
AgreeConf_OverKept(samples, score) ==
    IF samples # <<>>
    THEN Some([num |-> AgreeCount(samples, score) * 100, den |-> Len(samples)])
    ELSE None

\* (agree_count / 3) * 100 if resample_scores else None
AgreeConf(samples, score) ==
    IF samples # <<>>
    THEN Some([num |-> AgreeCount(samples, score) * 100, den |-> 3])
    ELSE None

ScoreRecord ==
    [row_id |-> RowId(row),
     metric |-> metric.name,
     score |-> Val(frame.score_value),
     revised_score |-> frame.revised_score,
     revision_delta |-> frame.revision_delta,
     critique |-> frame.critique,
     self_conf |-> frame.self_conf,
     agree_conf |-> AgreeConf(frame.resample_scores, Val(frame.score_value))]

\* Changed: the record is put at the front of the row's list.
ReturnRecord_Prepend ==
    /\ pc = "resample"
    /\ frame.seed > Len(Seeds)
    /\ row_scores' = <<ScoreRecord>> \o row_scores
    /\ metIdx' = metIdx + 1
    /\ calls' = [calls EXCEPT ![Len(calls)].returned = TRUE]
    /\ log' = Append(log, End)
    /\ pc' = "metrics"
    /\ UNCHANGED <<chatVars, dataset, metrics, csv, runs, departures, df, rowIdx, scores,
                   frame, error>>

\* return {...}; scores.append(score)
ReturnRecord ==
    /\ pc = "resample"
    /\ frame.seed > Len(Seeds)
    /\ row_scores' = Append(row_scores, ScoreRecord)
    /\ metIdx' = metIdx + 1
    /\ calls' = [calls EXCEPT ![Len(calls)].returned = TRUE]
    /\ log' = Append(log, End)
    /\ pc' = "metrics"
    /\ UNCHANGED <<chatVars, dataset, metrics, csv, runs, departures, df, rowIdx, scores,
                   frame, error>>

(***************************************************************************)
(* _write_scores_to_csv.                                                   *)
(***************************************************************************)
Cell(o) == IF ~IsNone(o) THEN o ELSE <<"">>

\* The list handed to writer.writerow; KeyError when the record has no
\* "timestamp" key.
CsvRow(score) ==
    IF "timestamp" \in DOMAIN score
    THEN Returned(<<score.row_id, score.metric, score.score, Cell(score.revised_score),
                    Cell(score.revision_delta), Cell(score.critique),
                    Cell(score.self_conf), Cell(score.agree_conf), score.timestamp>>)
    ELSE Raised("KeyError")

\* The rows written before the first record whose row cannot be built.
RECURSIVE RowsWritten(_)
RowsWritten(list) ==
    IF list = <<>> \/ ~CsvRow(Head(list)).ok THEN <<>>
    ELSE <<CsvRow(Head(list)).value>> \o RowsWritten(Tail(list))

WriteError(list) ==
    LET bad == {n \in DOMAIN list : ~CsvRow(list[n]).ok}
    IN IF bad = {} THEN None ELSE Some(CsvRow(list[Min(bad)]).error)

WriteScoresToCsv ==
    /\ pc = "write"
    /\ LET write_header == ~csv.exists
       IN csv' = [exists |-> TRUE,
                  lines |-> csv.lines \o (IF write_header THEN <<Header>> ELSE <<>>)
                                      \o RowsWritten(scores)]
    /\ error' = WriteError(scores)
    /\ pc' = IF IsNone(WriteError(scores)) THEN "returned" ELSE "raised"
    /\ UNCHANGED <<chatVars, dataset, metrics, calls, runs, departures, df, rowIdx, metIdx, scores,
                   row_scores, frame, log>>

Next ==
    \/ \E q \in BOOLEAN : EvaluateDataset(q)
    \/ ForRow
    \/ ForMetric
    \/ ScorePrompt
    \/ \E text \in Responses("score") : ScoreReturn(text)
    \/ ScoreRaise
    \/ ReflectionPrompt
    \/ \E text \in Responses("reflection") : ReflectionReturn(text)
    \/ ReflectionRaise
    \/ ConfidencePrompt
    \/ \E text \in Responses("confidence") : ConfidenceReturn(text)
    \/ ConfidenceRaise
    \/ Resample
    \/ \E text \in Responses("agreement") : ResampleReturn(text)
    \/ ResampleRaise
    \/ ReturnRecord
    \/ WriteScoresToCsv

Spec == Init /\ [][Next]_vars

(***************************************************************************)
(* write_geval_scores_to_csv (runner.py lines 208-223), the second writer  *)
(* of the file at csv_path.  geval_scores is what run_deepeval_coherence   *)
(* returns: nothing, or one (row_id, score) for each row of the dataset,   *)
(* with score None where the measurement failed (a score is kept as the    *)
(* text csv writes for it).  The call counts as a run against the target.  *)
(***************************************************************************)
GevalScores ==
    {<<>>} \cup
    {[n \in DOMAIN dataset.rows |-> <<RowId(RowOf(dataset, n)), s[n]>>] :
        s \in [DOMAIN dataset.rows -> {None, Some("0.8")}]}

GevalRow(result) ==
    <<result[1], "coherence_g_eval", Cell(result[2]),
      <<"">>, <<"">>, <<"">>, <<"">>, <<"">>, <<"">> >>

WriteGevalScoresToCsv(geval_scores) ==
    /\ pc \in {"idle", "returned", "raised"}
    /\ runs < MaxRuns
    /\ runs' = runs + 1
    /\ LET write_header == ~csv.exists
       IN csv' = [exists |-> TRUE,
                  lines |-> csv.lines \o (IF write_header THEN <<Header>> ELSE <<>>)
                                      \o [n \in DOMAIN geval_scores |-> GevalRow(geval_scores[n])]]
    /\ UNCHANGED <<chatVars, dataset, metrics, calls, departures, pc, df, rowIdx, metIdx,
                   scores, row_scores, frame, error, log>>

(***************************************************************************)
(* The target under both of its writers, with a judge that answers every   *)
(* call as asked.                                                          *)
(***************************************************************************)
SinkNext ==
    \/ \E q \in BOOLEAN : EvaluateDataset(q)
    \/ ForRow
    \/ ForMetric
    \/ ScorePrompt
    \/ ScoreReturn(NominalResponse("score", frame.seed))
    \/ ReflectionPrompt
    \/ ReflectionReturn(NominalResponse("reflection", frame.seed))
    \/ ConfidencePrompt
    \/ ConfidenceReturn(NominalResponse("confidence", frame.seed))
    \/ Resample
    \/ ResampleReturn(NominalResponse("agreement", frame.seed))
    \/ ReturnRecord
    \/ WriteScoresToCsv
    \/ \E geval_scores \in GevalScores : WriteGevalScoresToCsv(geval_scores)

SinkSpec == Init /\ [][SinkNext]_vars

(***************************************************************************)
(* evaluate_dataset on datasets longer than df.head(3) keeps, with one     *)
(* plain metric and a judge that answers every call as asked.              *)
(***************************************************************************)
MaxQuickRows == 4

QuickInit ==
    /\ dataset \in {[columns |-> AllColumns, rows |-> [k \in 1..n |-> "verbose"]] :
                        n \in 0..MaxQuickRows}
    /\ metrics = load_registry(<<MetricFile(MetricPlain)>>)
    /\ csv = NoFile
    /\ departures = 0
    /\ RunnerIdle
    /\ ChatIdle

QuickNext ==
    \/ \E q \in BOOLEAN : EvaluateDataset(q)
    \/ ForRow
    \/ ForMetric
    \/ ScorePrompt
    \/ ScoreReturn(NominalResponse("score", frame.seed))
    \/ ReflectionPrompt
    \/ ReflectionReturn(NominalResponse("reflection", frame.seed))
    \/ ConfidencePrompt
    \/ ConfidenceReturn(NominalResponse("confidence", frame.seed))
    \/ Resample
    \/ ResampleReturn(NominalResponse("agreement", frame.seed))
    \/ ReturnRecord
    \/ WriteScoresToCsv

QuickSpec == QuickInit /\ [][QuickNext]_vars

(***************************************************************************)
(* LLMAdapter.chat (llm.py lines 30-65): one request to the API under      *)
(*   @retry(stop=stop_after_attempt(3),                                    *)
(*          wait=wait_exponential(multiplier=1, min=4, max=10),            *)
(*          reraise=True)                                                  *)
(* The decorator runs the attempt; an attempt that returns ends the call   *)
(* with its text; an attempt that raises is retried (the default policy    *)
(* retries every Exception) after the wait, unless stop says to stop, and  *)
(* then the exception of that attempt is raised again.  Waits are in       *)
(* seconds.                                                                *)
(***************************************************************************)
stop_after_attempt == 3
wait_multiplier == 1
wait_min == 4
wait_max == 10
exp_base == 2

\* What an attempt may raise: openai.APIError and two of its subclasses
\* (logged and raised again at lines 63-65), and an exception that is no
\* APIError.
ApiErrors == {"APIError", "RateLimitError", "APITimeoutError"}
Exceptions == ApiErrors \cup {"TimeoutError"}

\* What an attempt may return: response.choices[0].message.content.
Contents == {TScore8, TEmpty}

RECURSIVE Power(_, _)
Power(b, n) == IF n = 0 THEN 1 ELSE b * Power(b, n - 1)

Max(a, b) == IF a >= b THEN a ELSE b

\* Changed: the stop test is passed one attempt later.
Stop_OneLate(n) == n > stop_after_attempt

\* stop_after_attempt(3): stop once attempt_number >= 3.
Stop(n) == n >= stop_after_attempt

\* wait_exponential: max(max(0, min), min(multiplier * exp_base ** (n - 1), max))
WaitExponential(n) ==
    Max(Max(0, wait_min), Min({wait_multiplier * Power(exp_base, n - 1), wait_max}))

\* A call of chat begins: its first attempt.
Call ==
    /\ chat_pc \in {"idle", "returned", "raised"}
    /\ chats' = chats + 1
    /\ chat_pc' = "attempt"
    /\ attempt_number' = 1
    /\ outcome' = None
    /\ attempts' = <<>>
    /\ sleeps' = <<>>
    /\ UNCHANGED runnerVars

\* The calls of the model are bounded in number.
Chat == chats < MaxChats /\ Call

\* return response.choices[0].message.content
AttemptReturns(content) ==
    /\ chat_pc = "attempt"
    /\ attempts' = Append(attempts, Returned(content))
    /\ outcome' = Some(Returned(content))
    /\ chat_pc' = "returned"
    /\ UNCHANGED <<runnerVars, chats, attempt_number, sleeps>>

\* The attempt raises e: raise it again (reraise=True) when stop says so,
\* else sleep for the wait.
AttemptRaises(e) ==
    /\ chat_pc = "attempt"
    /\ attempts' = Append(attempts, Raised(e))
    /\ IF Stop(attempt_number)
       THEN /\ outcome' = Some(Raised(e))
            /\ chat_pc' = "raised"
            /\ UNCHANGED sleeps
       ELSE /\ sleeps' = Append(sleeps, WaitExponential(attempt_number))
            /\ chat_pc' = "sleep"
            /\ UNCHANGED outcome
    /\ UNCHANGED <<runnerVars, chats, attempt_number>>

\* The sleep is over: the next attempt.
NextAttempt ==
    /\ chat_pc = "sleep"
    /\ attempt_number' = attempt_number + 1
    /\ chat_pc' = "attempt"
    /\ UNCHANGED <<runnerVars, chats, outcome, attempts, sleeps>>

\* The runner is at rest on an empty dataset.
ChatInit ==
    /\ dataset = [columns |-> AllColumns, rows |-> <<>>]
    /\ metrics = <<>>
    /\ csv = NoFile
    /\ departures = 0
    /\ RunnerIdle
    /\ ChatIdle

ChatNext ==
    \/ Chat
    \/ \E content \in Contents : AttemptReturns(content)
    \/ \E e \in Exceptions : AttemptRaises(e)
    \/ NextAttempt

ChatSpec == ChatInit /\ [][ChatNext]_vars

(***************************************************************************)
(* evaluate_dataset with the judge behind chat.  runner.py line 10 imports *)
(* chat from .llm; that function is not among the files of the repository, *)
(* so its binding follows the Chat Service contract of the specification   *)
(* (section 4.6): chat(prompt) is one call under the retry policy of       *)
(* LLMAdapter.chat, and it gives _apply_metric the text the call returned  *)
(* or raises the error the call raised.  There is one thread of control:   *)
(* _apply_metric is suspended at its await from the moment the call begins *)
(* until it has the outcome.                                               *)
(***************************************************************************)
MaxLiveRows == 1

Awaiting == pc \in {"score_chat", "reflection_chat", "confidence_chat", "resample_chat"}

StageAwaited ==
    CASE pc = "score_chat" -> "score"
      [] pc = "reflection_chat" -> "reflection"
      [] pc = "confidence_chat" -> "confidence"
      [] pc = "resample_chat" -> "agreement"

\* await chat(prompt): the call begins.
Send == Awaiting /\ chat_pc = "idle" /\ Call

\* An attempt of the call returns what the judge answers at this stage.
Answer ==
    /\ Awaiting
    /\ AttemptReturns(NominalResponse(StageAwaited, frame.seed))

\* An attempt of the call raises.
Fault ==
    /\ Awaiting
    /\ departures < MaxDepartures
    /\ AttemptRaises("APIError")

Returns == chat_pc = "returned" /\ Awaiting
Raises == chat_pc = "raised" /\ Awaiting

\* The call is over and _apply_metric has its outcome.
Release ==
    /\ chat_pc \in {"returned", "raised"}
    /\ ~Awaiting
    /\ chat_pc' = "idle"
    /\ UNCHANGED <<runnerVars, chats, attempt_number, outcome, attempts, sleeps>>

LiveInit ==
    /\ dataset \in {[columns |-> AllColumns, rows |-> [k \in 1..n |-> "verbose"]] :
                        n \in 0..MaxLiveRows}
    /\ metrics = load_registry(<<MetricFile(MetricPlain)>>)
    /\ csv = NoFile
    /\ departures = 0
    /\ RunnerIdle
    /\ ChatIdle

\* chat returns its text to the await of _apply_metric.
Deliver ==
    \/ Returns /\ pc = "score_chat" /\ ScoreReturn(Val(outcome).value)
    \/ Returns /\ pc = "reflection_chat" /\ ReflectionReturn(Val(outcome).value)
    \/ Returns /\ pc = "confidence_chat" /\ ConfidenceReturn(Val(outcome).value)
    \/ Returns /\ pc = "resample_chat" /\ ResampleReturn(Val(outcome).value)

\* The other steps of a run once begun.
Proceed ==
    \/ chat_pc = "idle" /\ ForRow
    \/ chat_pc = "idle" /\ ForMetric
    \/ chat_pc = "idle" /\ ScorePrompt
    \/ chat_pc = "idle" /\ ReflectionPrompt
    \/ chat_pc = "idle" /\ ConfidencePrompt
    \/ chat_pc = "idle" /\ Resample
    \/ chat_pc = "idle" /\ ReturnRecord
    \/ chat_pc = "idle" /\ WriteScoresToCsv
    \/ Send
    \/ Answer
    \/ Fault
    \/ NextAttempt
    \/ Raises /\ pc = "score_chat" /\ ScoreRaise
    \/ Raises /\ pc = "reflection_chat" /\ ReflectionRaise
    \/ Raises /\ pc = "confidence_chat" /\ ConfidenceRaise
    \/ Raises /\ pc = "resample_chat" /\ ResampleRaise
    \/ Release

LiveNext ==
    \/ \E q \in BOOLEAN : chat_pc = "idle" /\ EvaluateDataset(q)
    \/ Proceed
    \/ Deliver

\* Where _apply_metric goes on when its await has the text.
AfterAwait ==
    CASE pc = "score_chat" -> "reflection_prompt"
      [] pc = "reflection_chat" -> "confidence_prompt"
      [] pc = "confidence_chat" -> "resample"
      [] pc = "resample_chat" -> "resample"

\* The step of Deliver, seen as the move of _apply_metric alone.
Resume == Returns /\ pc' = AfterAwait

\* Every attempt ends, every sleep ends, and the event loop resumes the one
\* coroutine there is whenever it can run.  Fairness for Deliver is stated
\* on Resume: a step of Deliver is a step of Resume that changes pc, and
\* the other way round.
LiveSpec == LiveInit /\ [][LiveNext]_vars /\ WF_vars(Proceed) /\ WF_pc(Resume)

(***************************************************************************)
(* Reading the history of a run.                                           *)
(***************************************************************************)
\* The records _apply_metric has returned in this run, in the order of the
\* list evaluate_dataset builds.
Produced == scores \o row_scores

Finished == pc \in {"returned", "raised"}

Pairs == (1..Len(df)) \X (1..Len(metrics))
CallPair(k) == <<calls[k].row, calls[k].metric>>
ReturnedCalls == {k \in DOMAIN calls : calls[k].returned}
Ended(pair) == \E k \in ReturnedCalls : CallPair(k) = pair

\* The k-th pair of the run in dataset order and, within a row, registry order.
NthPair(k) == <<((k - 1) \div Len(metrics)) + 1, ((k - 1) % Len(metrics)) + 1>>

\* The texts a chat call of the model may return and the parser directives of
\* its metrics, with what the parsers of the code give for each: computed
\* once, and read by the properties that follow.
Texts ==
    UNION {{NominalResponse(stage, seed) : seed \in 1..3} \cup OtherResponses(stage) :
              stage \in {"score", "reflection", "confidence", "agreement"}}
Parsers == {Catalogue[k].parser : k \in DOMAIN Catalogue}
Parsed == [parser \in Parsers |-> [text \in Texts |-> parse_score(parser, text)]]
Labelled == [text \in Texts |-> SearchLabelled(text)]
Standalone == [text \in Texts |-> SearchStandalone(text)]

\* The latest call of _apply_metric: its pair, how it stands, its record.
Current == <<log[1].row, log[1].metric>>
InCall ==
    pc \in {"score_prompt", "score_chat", "reflection_prompt", "reflection_chat",
            "confidence_prompt", "confidence_chat", "resample", "resample_chat"}
CallEnded == log # <<>> /\ log[Len(log)].ev = "end"
Record == Produced[Len(Produced)]

\* The latest call has returned its record and nothing has run since.
JustEnded == CallEnded /\ pc = "metrics" /\ metIdx = Current[2] + 1

At(ev) == {n \in DOMAIN log : log[n].ev = ev}
AtStage(ev, stage) == {n \in At(ev) : log[n].stage = stage}

\* The stages of the chat requests of the call, in the order issued.
RequestStages ==
    LET IsRequest(e) == e.ev = "request"
        reqs == SelectSeq(log, IsRequest)
    IN [k \in DOMAIN reqs |-> reqs[k].stage]

ScoreStageRaised == \E n \in At("abort") : log[n].stage = "score"
TemplateFailed == \E n \in At("abort") : log[n].exc = "KeyError"

(***************************************************************************)
(* C1. One run of evaluate_dataset in which no score stage raises produces *)
(* exactly one ScoreRecord per (row, metric) pair: R*M records, no pair    *)
(* missing, none duplicated.  Stated for the runs in which every template  *)
(* renders, where the only departures left are those of the judge.         *)
(***************************************************************************)
C1_OneRecordPerPair ==
    (Finished /\ ~ScoreStageRaised /\ ~TemplateFailed) =>
        /\ Len(Produced) = Len(df) * Len(metrics)
        /\ \A pair \in Pairs : Cardinality({k \in ReturnedCalls : CallPair(k) = pair}) = 1

(***************************************************************************)
(* C2. Pairs are processed in dataset order and, within a row, in registry *)
(* order: the k-th call of _apply_metric is for the k-th pair and begins   *)
(* only after every earlier call has returned, and the list of records is  *)
(* in that same order.                                                     *)
(***************************************************************************)
C2_ProcessingOrder ==
    /\ \A k \in DOMAIN calls :
          /\ CallPair(k) \in Pairs
          /\ CallPair(k) = NthPair(k)
          /\ k < Len(calls) => calls[k].returned
    /\ InCall => (calls # <<>> /\ ~calls[Len(calls)].returned /\ Current = CallPair(Len(calls)))
    /\ Len(Produced) = Cardinality(ReturnedCalls)
    /\ \A k \in ReturnedCalls :
          /\ Produced[k].row_id = RowId(RowOf(dataset, df[calls[k].row]))
          /\ Produced[k].metric = metrics[calls[k].metric].name

\* A run of two rows and two metrics of different names has produced its
\* four records.
C2_Witness ==
    /\ Len(df) = 2
    /\ Len(metrics) = 2
    /\ metrics[1].name # metrics[2].name
    /\ "id" \in dataset.columns
    /\ Len(scores) = 4

StageOrder == <<"score", "reflection", "confidence", "agreement", "agreement", "agreement">>

IsPrefix(s, t) == Len(s) <= Len(t) /\ s = SubSeq(t, 1, Len(s))

Answers(n, m) ==
    /\ log[m].ev \in {"response", "failure"}
    /\ log[m].stage = log[n].stage

\* The score response of the call, the third event of its log, did not parse.
ScoreUnparsed ==
    /\ Len(log) >= 3
    /\ log[3].ev = "response"
    /\ log[3].stage = "score"
    /\ ~Parsed[metrics[Current[2]].parser][Val(log[3].text)].ok

(***************************************************************************)
(* C3. Within a pair the stages run in the order score, reflection,        *)
(* confidence, agreement: a request is issued only when the previous one   *)
(* has been answered (or has failed), and a pair that returns a record has *)
(* run every stage.                                                        *)
(***************************************************************************)
C3_StageOrder ==
    /\ IsPrefix(RequestStages, StageOrder)
    /\ \A n \in At("request") :
          IF n = Len(log)
          THEN pc \in {"score_chat", "reflection_chat", "confidence_chat", "resample_chat"}
          ELSE Answers(n, n + 1)
    /\ \A n \in At("response") \cup At("failure") :
          n > 1 /\ log[n - 1].ev = "request" /\ Answers(n - 1, n)
    /\ CallEnded => RequestStages = StageOrder

\* A pair returned its record although its score response did not parse.
C3_Witness ==
    /\ CallEnded
    /\ ScoreUnparsed
    /\ Len(calls) > 1

\* The values parse_score gave for the resamples of the call that were kept.
KeptSamples ==
    LET IsSample(e) == e.ev = "response" /\ e.stage = "agreement"
        IsKept(r) == r.ok
        samples == SelectSeq(log, IsSample)
        parsed == [k \in DOMAIN samples |->
                      Parsed[metrics[Current[2]].parser][Val(samples[k].text)]]
        kept == SelectSeq(parsed, IsKept)
    IN [k \in DOMAIN kept |-> kept[k].value]

Within(samples, base) ==
    Cardinality({k \in DOMAIN samples : samples[k] - base <= 10 /\ base - samples[k] <= 10})

(***************************************************************************)
(* C4. A score response that does not parse does not abort the pair: the   *)
(* score is 0.0, the reflection and confidence prompts carry 0.0, the      *)
(* agreement baseline is 0.0 and the record returned has score 0.0.        *)
(***************************************************************************)
C4_UnparsedScoreIsZero ==
    /\ At("abort") # {} => ~ScoreUnparsed \/ AtStage("abort", "score") = {}
    /\ (log # <<>> /\ log[Len(log)].ev = "response" /\ log[Len(log)].stage = "score") =>
          (ScoreUnparsed =>
              (pc = "reflection_prompt" /\ frame.score_value = Some(0) /\ IsNone(error)))
    /\ (log # <<>> /\ log[Len(log)].ev = "request"
            /\ log[Len(log)].stage \in {"reflection", "confidence"}) =>
          (ScoreUnparsed => Val(log[Len(log)].prompt).args["score"] = <<"score", 0>>)
    /\ JustEnded =>
          (ScoreUnparsed =>
              LET kept == KeptSamples
              IN /\ RequestStages = StageOrder
                 /\ Record.score = 0
                 /\ kept # <<>> => Val(Record.agree_conf).num = 100 * Within(kept, 0))

\* A record was returned for a pair whose score response had no match.
C4_Witness ==
    /\ ScoreUnparsed
    /\ StartsWith(metrics[Current[2]].parser, RegexPrefix)
    /\ CallEnded
    /\ KeptSamples # <<>>

Renders(pair) ==
    LET m == metrics[pair[2]]
    IN /\ m.prompt_template.fields \subseteq dataset.columns
       /\ m.reflection_prompt.fields \subseteq dataset.columns \cup {"score"}
       /\ m.confidence_prompt.fields \subseteq dataset.columns \cup {"score"}

(***************************************************************************)
(* C5. A template that names a column the row lacks aborts only its own    *)
(* pair: no record for that pair, and every other pair of the run is still *)
(* evaluated and its record returned.                                      *)
(***************************************************************************)
C5_TemplateErrorAbortsOnlyPair ==
    TemplateFailed =>
        /\ ~Ended(Current)
        /\ Finished => \A pair \in Pairs : Renders(pair) => Ended(pair)

(***************************************************************************)
(* C6. A chat failure at the reflection stage does not abort the pair:     *)
(* the record is returned with revised_score, revision_delta and critique  *)
(* absent, after the confidence and agreement stages have run.             *)
(***************************************************************************)
C6_ReflectionFailureDegrades ==
    AtStage("failure", "reflection") # {} =>
        /\ At("abort") = {}
        /\ ~InCall => CallEnded
        /\ CallEnded =>
              /\ RequestStages = StageOrder
              /\ IsNone(Record.revised_score)
              /\ IsNone(Record.revision_delta)
              /\ IsNone(Record.critique)

(***************************************************************************)
(* C7. A chat failure at the score stage is handled in the stage: the      *)
(* score is 0.0 and the error does not leave evaluate_dataset.             *)
(***************************************************************************)
C7_ScoreFailureDefaults ==
    \A n \in AtStage("failure", "score") :
        /\ At("abort") = {}
        /\ error # Some("APIError")
        /\ n = Len(log) => (pc = "reflection_prompt" /\ frame.score_value = Some(0))
        /\ CallEnded => Record.score = 0

NoDigit(t) == \A k \in DOMAIN t : ~IsDigit(t[k])

ConfidenceFailedAt(n) ==
    /\ log[n].stage = "confidence"
    /\ \/ log[n].ev = "failure"
       \/ log[n].ev = "response" /\ NoDigit(Val(log[n].text))

ScoringPrompt ==
    Format(metrics[Current[2]].prompt_template, RowOf(dataset, df[Current[1]])).value

(***************************************************************************)
(* C9. The agreement stage issues exactly 3 chat requests for a pair,      *)
(* whatever their outcomes, each with the full stage-1 prompt.  Each       *)
(* resample request is compared when it is the latest event of the log.    *)
(***************************************************************************)
C9_ThreeResamples ==
    /\ Cardinality(AtStage("request", "agreement")) <= 3
    /\ (AtStage("request", "agreement") # {} /\ ~InCall) =>
          (CallEnded /\ Cardinality(AtStage("request", "agreement")) = 3)
    /\ (log # <<>> /\ log[Len(log)].ev = "request" /\ log[Len(log)].stage = "agreement") =>
          LET n == Len(log)
          IN /\ log[n].prompt = Some(ScoringPrompt)
             /\ \A m \in At("request") :
                   IF log[m].stage \in {"reflection", "confidence"}
                   THEN log[m].prompt # log[n].prompt
                   ELSE log[m].prompt = log[n].prompt

\* A pair whose scoring prompt is longer than the reflection budget ended
\* although one of its resamples failed.
C9_Witness ==
    /\ CallEnded
    /\ ScoringPrompt.len > max_chars
    /\ AtStage("failure", "agreement") # {}

(***************************************************************************)
(* C10. With at least one resample kept, agree_conf is the number of kept  *)
(* samples within 1.0 of the stage-1 score, over 3, times 100.             *)
(***************************************************************************)
C10_AgreementOverThree ==
    JustEnded =>
        LET kept == KeptSamples
        IN kept # <<>> =>
              /\ ~IsNone(Record.agree_conf)
              /\ Val(Record.agree_conf).den = 3
              /\ Val(Record.agree_conf).num = 100 * Within(kept, Record.score)
              /\ Val(Record.agree_conf).num \in {0, 100, 200, 300}

\* Two of three resamples were kept, and one of them is within 1.0 of the
\* revised score but not of the score.
C10_Witness ==
    /\ CallEnded
    /\ Len(KeptSamples) = 2
    /\ ~IsNone(Record.revised_score)
    /\ Within(KeptSamples, Record.score) = 1
    /\ Within(KeptSamples, Val(Record.revised_score)) = 2

\* The answer at position n of the log is a resample that was dropped: its
\* chat call failed or its text did not parse.
Dropped(n) ==
    /\ log[n].stage = "agreement"
    /\ \/ log[n].ev = "failure"
       \/ /\ log[n].ev = "response"
          /\ ~Parsed[metrics[Current[2]].parser][Val(log[n].text)].ok

AllDropped == Cardinality({n \in DOMAIN log : Dropped(n)}) = 3

(***************************************************************************)
(* C11. In a returned record agree_conf is absent if and only if all three *)
(* resamples were dropped; with at least one kept and none within 1.0 of   *)
(* the score it is the number 0.                                           *)
(***************************************************************************)
C11_AgreementAbsentIffAllDropped ==
    JustEnded =>
        LET kept == KeptSamples
        IN /\ IsNone(Record.agree_conf) <=> AllDropped
           /\ AllDropped <=> kept = <<>>
           /\ (kept # <<>> /\ Within(kept, Record.score) = 0) =>
                 Record.agree_conf = Some([num |-> 0, den |-> 3])

\* A record was returned without agree_conf after all three resamples were
\* dropped.
C11_Witness ==
    /\ CallEnded
    /\ AllDropped
    /\ IsNone(Record.agree_conf)

\* A record was returned with agree_conf 0: samples were kept, none agreed.
C11_ZeroWitness ==
    /\ CallEnded
    /\ KeptSamples # <<>>
    /\ Record.agree_conf = Some([num |-> 0, den |-> 3])

(***************************************************************************)
(* C12. In every returned record revision_delta is present if and only if  *)
(* revised_score is, and then it is revised_score minus the stage-1 score, *)
(* a defaulted 0.0 included.                                               *)
(***************************************************************************)
C12_DeltaIffRevised ==
    /\ LET produced == Produced
       IN \A k \in DOMAIN produced :
             /\ IsNone(produced[k].revision_delta) <=> IsNone(produced[k].revised_score)
             /\ ~IsNone(produced[k].revised_score) =>
                   Val(produced[k].revision_delta) =
                       Val(produced[k].revised_score) - produced[k].score
    /\ CallEnded => Record.score = Val(frame.score_value)
    /\ (JustEnded /\ ScoreUnparsed) => Record.score = 0

\* A record with a revised score was returned for a pair whose score had
\* defaulted to 0.0.
C12_Witness ==
    /\ CallEnded
    /\ ScoreUnparsed
    /\ ~IsNone(Record.revised_score)
    /\ Val(Record.revised_score) # 0
    /\ Record.revision_delta = Record.revised_score

\* A record was returned without revised_score and without revision_delta.
C12_AbsentWitness ==
    /\ CallEnded
    /\ IsNone(Record.revised_score)
    /\ IsNone(Record.revision_delta)

\* The text the confidence call returned to the call, if it returned.
ConfidenceText ==
    LET at == AtStage("response", "confidence")
    IN IF at = {} THEN None ELSE log[CHOOSE n \in at : TRUE].text

(***************************************************************************)
(* C13. In every returned record self_conf is absent or a number in        *)
(* [0, 100]: a value extracted above 100 becomes 100, and a response       *)
(* without a digit gives absent, never 0.                                  *)
(***************************************************************************)
C13_SelfConfClamped ==
    /\ LET produced == Produced
       IN \A k \in DOMAIN produced :
             \/ IsNone(produced[k].self_conf)
             \/ (0 <= Val(produced[k].self_conf) /\ Val(produced[k].self_conf) <= 1000)
    /\ (JustEnded /\ ~IsNone(ConfidenceText)) =>
          LET t == Val(ConfidenceText)
          IN IF NoDigit(t)
             THEN IsNone(Record.self_conf)
             ELSE /\ ~IsNone(Record.self_conf)
                  /\ Float(Val(SearchConfidence(t))) > 1000 => Val(Record.self_conf) = 1000
                  /\ Float(Val(SearchConfidence(t))) <= 1000 =>
                        Val(Record.self_conf) = Float(Val(SearchConfidence(t)))

\* A record was returned with self_conf 100.0 after the judge answered 120.
C13_Witness ==
    /\ CallEnded
    /\ ConfidenceText = Some(TConf120)
    /\ Record.self_conf = Some(1000)

\* A record was returned without self_conf after the judge answered with a
\* text that has no digit.
C13_AbsentWitness ==
    /\ CallEnded
    /\ ConfidenceText = Some(TEmpty)
    /\ IsNone(Record.self_conf)

\* The text the reflection call returned to the call, if it returned.
ReflectionText ==
    LET at == AtStage("response", "reflection")
    IN IF at = {} THEN None ELSE log[CHOOSE n \in at : TRUE].text

(***************************************************************************)
(* C14. Revision extraction has two stages with strict precedence: when    *)
(* the reflection response has a labelled "Revised score" followed by      *)
(* optional separators and a number, revised_score is that number, even    *)
(* after an earlier standalone number in 0..10; the first standalone       *)
(* number is used only when the labelled form does not match; with neither *)
(* revised_score is absent.                                                *)
(***************************************************************************)
C14_LabelledFirst ==
    /\ CallEnded => Record.revised_score = frame.revised_score
    /\ (~IsNone(ReflectionText) /\ (JustEnded \/ log[Len(log)].stage = "reflection")) =>
          LET t == Val(ReflectionText)
              labelled == Labelled[t]
              standalone == Standalone[t]
          IN /\ ~IsNone(labelled) => frame.revised_score = Some(Float(Val(labelled)))
             /\ (IsNone(labelled) /\ ~IsNone(standalone)) =>
                   frame.revised_score = Some(Float(Val(standalone)))
             /\ (IsNone(labelled) /\ IsNone(standalone)) => IsNone(frame.revised_score)
             /\ t = TStrayRevised => frame.revised_score = Some(60)
             /\ t = TLabelNoNumber => frame.revised_score = Some(70)
             /\ t = TNoChange => IsNone(frame.revised_score)

\* A record was returned with revised_score 6.0 for a reflection response
\* that has a standalone 9 before its labelled 6.
C14_Witness ==
    /\ CallEnded
    /\ ReflectionText = Some(TStrayRevised)
    /\ SearchStandalone(TStrayRevised) = Some(<<"9">>)
    /\ Record.revised_score = Some(60)

\* A line is the header row: its second cell is the column name, where a
\* record's row has the name of a metric.
IsHeader(line) == line[2] = Header[2]

\* The target holds the header row exactly once, as its first line.
HeaderOnce ==
    /\ csv.exists
    /\ csv.lines # <<>>
    /\ IsHeader(csv.lines[1])
    /\ Cardinality({n \in DOMAIN csv.lines : IsHeader(csv.lines[n])}) = 1

\* A step of one of the two writers of the target.
WritesTarget ==
    \/ WriteScoresToCsv
    \/ \E geval_scores \in GevalScores : WriteGevalScoresToCsv(geval_scores)

(***************************************************************************)
(* C15. After every write to the target, by an evaluation run or by a      *)
(* G-Eval append, starting from a target that does not exist or is empty,  *)
(* the target holds the header row exactly once, as its first line.        *)
(***************************************************************************)
C15_HeaderExactlyOnce == [][WritesTarget => HeaderOnce']_vars

\* The rows of records in the target, and those of one pair of the run.
RecordLines == {n \in DOMAIN csv.lines : ~IsHeader(csv.lines[n])}
LinesOf(pair) ==
    {n \in RecordLines :
        /\ csv.lines[n][1] = RowId(RowOf(dataset, df[pair[1]]))
        /\ csv.lines[n][2] = metrics[pair[2]].name}

(***************************************************************************)
(* C16. Evaluation is append-only and not idempotent: after two runs of    *)
(* evaluate_dataset on the same dataset against the same target, the       *)
(* target holds two records for every (row, metric) pair.  Stated for the  *)
(* plain scenario, where nothing departs and each run evaluates every      *)
(* pair.                                                                   *)
(***************************************************************************)
C16_TwiceTheRecords ==
    (runs = 2 /\ Finished /\ departures = 0) =>
        /\ Len(Produced) = Len(df) * Len(metrics)
        /\ Cardinality(RecordLines) = 2 * Len(df) * Len(metrics)
        /\ \A pair \in Pairs : Cardinality(LinesOf(pair)) = 2

\* The fields of a record, which are the columns of the target.
Fields == {Header[k] : k \in DOMAIN Header}

(***************************************************************************)
(* C17. Every record _apply_metric returns carries the nine fields of the  *)
(* target's columns, timestamp included, and a run that returned at least  *)
(* one record completes its write without error, one row for each record.  *)
(***************************************************************************)
C17_RecordsComplete ==
    /\ \A k \in DOMAIN Produced : DOMAIN Produced[k] = Fields
    /\ (Finished /\ Len(Produced) = Len(df) * Len(metrics) /\ At("abort") = {}) =>
          /\ pc = "returned"
          /\ Cardinality(RecordLines) >= Len(Produced)

(***************************************************************************)
(* C18. A record is in the target as soon as it is returned, before the    *)
(* score stage of the next pair starts: while a pair is evaluated, the     *)
(* records of all earlier pairs of the run are in the target.              *)
(***************************************************************************)
C18_PersistedAtOnce ==
    InCall =>
        /\ Cardinality(RecordLines) >= Len(Produced)
        /\ \A k \in ReturnedCalls : LinesOf(CallPair(k)) # {}

\* The attempts of the call that raised.
Failed == {k \in DOMAIN attempts : ~attempts[k].ok}

(***************************************************************************)
(* C19. One call of chat makes at most 3 attempts: it returns the text of  *)
(* the first attempt that succeeds and makes no attempt after it; it       *)
(* raises only after 3 failed attempts, and then the error of the last;    *)
(* there is never a 4th attempt.                                           *)
(***************************************************************************)
C19_AtMostThreeAttempts ==
    /\ Len(attempts) <= 3
    /\ attempt_number <= 3
    /\ \A k \in DOMAIN attempts : k < Len(attempts) => ~attempts[k].ok
    /\ chat_pc = "attempt" => Len(attempts) = attempt_number - 1
    /\ chat_pc = "returned" <=> (attempts # <<>> /\ attempts[Len(attempts)].ok)
    /\ chat_pc = "returned" => outcome = Some(attempts[Len(attempts)])
    /\ chat_pc = "raised" <=> Cardinality(Failed) = 3
    /\ chat_pc = "raised" => outcome = Some(attempts[3])
    /\ chat_pc \in {"attempt", "sleep"} => outcome = None

\* A call raised the error of its third attempt, which is not the error of
\* its first two.
C19_Witness ==
    /\ chat_pc = "raised"
    /\ Cardinality(Failed) = 3
    /\ attempts[3].error \notin {attempts[1].error, attempts[2].error}
    /\ outcome = Some(Raised(attempts[3].error))

\* A call returned the text of its third attempt.
C19_ReturnWitness ==
    /\ chat_pc = "returned"
    /\ Len(attempts) = 3
    /\ outcome = Some(Returned(TScore8))

(***************************************************************************)
(* C20. The wait after the first failed attempt is 4; each further wait is *)
(* twice the one before; no wait exceeds 10.                               *)
(***************************************************************************)
C20_BackoffDoubles ==
    \A k \in DOMAIN sleeps :
        /\ sleeps[k] <= 10
        /\ k = 1 => sleeps[k] = 4
        /\ k > 1 => sleeps[k] = Min({2 * sleeps[k - 1], 10})

\* The rows of the dataset for which _apply_metric has been called.
RowsProcessed == {df[calls[k].row] : k \in DOMAIN calls}

\* The rows loop of evaluate_dataset has run to its end.
LoopDone == pc \in {"write", "returned"}

(***************************************************************************)
(* C21. In quick mode evaluate_dataset processes exactly the first         *)
(* min(3, row_count) rows of the dataset, in dataset order, and no others; *)
(* without quick mode it processes all rows.                               *)
(***************************************************************************)
C21_QuickHead ==
    /\ [][\A q \in BOOLEAN : EvaluateDataset(q) =>
            LET n == Len(dataset.rows)
            IN df' = [k \in 1..(IF q THEN Min({3, n}) ELSE n) |-> k]]_vars
    /\ [](/\ \A k \in DOMAIN calls : calls[k].row \in DOMAIN df
          /\ \A j, k \in DOMAIN calls : j < k => df[calls[j].row] <= df[calls[k].row]
          /\ RowsProcessed \subseteq Range(df)
          /\ (LoopDone /\ metrics # <<>>) => RowsProcessed = Range(df))

\* A quick run over a dataset of more than three rows has processed three.
C21_Witness ==
    /\ Len(dataset.rows) > 3
    /\ LoopDone
    /\ RowsProcessed = {1, 2, 3}

(***************************************************************************)
(* C22. A MetricSpec whose parser directive is not of the form             *)
(* regex:<pattern> is dropped at load time: no pair is ever evaluated with *)
(* such a metric.                                                          *)
(***************************************************************************)
C22_UnsupportedParserNeverEvaluated ==
    \A k \in DOMAIN calls : StartsWith(metrics[calls[k].metric].parser, RegexPrefix)

\* What the templates of the current pair render to at a stage, before any
\* truncation; the score injected is the one the call holds.
Rendered(stage) ==
    LET m == metrics[Current[2]]
        r == RowOf(dataset, df[Current[1]])
    IN CASE stage = "reflection" ->
                Format(m.reflection_prompt, WithScore(r, Val(frame.score_value)))
         [] stage = "confidence" ->
                Format(m.confidence_prompt, WithScore(r, Val(frame.score_value)))
         [] OTHER -> Format(m.prompt_template, r)

\* The prompt of the reflection request of the call.
ReflectionSent == Val(log[CHOOSE n \in AtStage("request", "reflection") : TRUE].prompt)

(***************************************************************************)
(* C23. The reflection prompt sent is the first min(1024, length)          *)
(* characters of the rendered reflection prompt, and truncation never      *)
(* aborts the stage; the score, confidence and resample prompts are sent   *)
(* in full whatever their length.                                          *)
(***************************************************************************)
C23_OnlyReflectionTruncated ==
    /\ (log # <<>> /\ log[Len(log)].ev = "request") =>
          LET stage == log[Len(log)].stage
              sent == Val(log[Len(log)].prompt)
              full == Rendered(stage).value
          IN /\ sent.template = full.template
             /\ sent.args = full.args
             /\ stage = "reflection" =>
                   /\ sent.len = Min({1024, full.len})
                   /\ sent.len <= 1024
             /\ stage # "reflection" => sent = full
    /\ (log # <<>> /\ log[Len(log)].ev = "abort" /\ log[Len(log)].stage = "reflection"
            /\ AtStage("request", "reflection") = {}) =>
          ~Rendered("reflection").ok

\* The confidence prompt went out whole at more than 1024 characters after
\* the reflection prompt of the same pair went out cut to 1024.
C23_Witness ==
    /\ log # <<>>
    /\ log[Len(log)].ev = "request"
    /\ log[Len(log)].stage = "confidence"
    /\ Val(log[Len(log)].prompt).len > 1024
    /\ Rendered("reflection").value.len > 1024
    /\ ReflectionSent.len = 1024

(***************************************************************************)
(* C24. The Orchestrator never retries: a pair makes at most one chat call *)
(* for the score stage, one for the reflection stage, one for the          *)
(* confidence stage and three resamples, and a pair that returns its       *)
(* record has made exactly these 6; an answer that failed or did not parse *)
(* is never followed by a second call of its stage; no pair is evaluated   *)
(* twice within a run.  The log and the list of calls only grow, so what   *)
(* is said of the latest event and of the latest call is said of each.     *)
(***************************************************************************)
C24_NoRetry ==
    /\ LET stages == RequestStages
           Count(stage) == Cardinality({k \in DOMAIN stages : stages[k] = stage})
       IN /\ \A stage \in {"score", "reflection", "confidence"} : Count(stage) <= 1
          /\ Count("agreement") <= 3
          /\ CallEnded =>
                /\ \A stage \in {"score", "reflection", "confidence"} : Count(stage) = 1
                /\ Count("agreement") = 3
                /\ Len(stages) = 6
    /\ (log # <<>> /\ log[Len(log)].ev \in {"response", "failure"}) =>
          LET n == Len(log)
          IN Cardinality({m \in At("request") : log[m].stage = log[n].stage}) =
                Cardinality({m \in At("response") \cup At("failure") :
                                log[m].stage = log[n].stage})
    /\ (Len(log) > 1 /\ log[Len(log)].ev = "request" /\ log[Len(log)].stage # "agreement") =>
          ~(/\ log[Len(log) - 1].ev \in {"response", "failure"}
            /\ log[Len(log) - 1].stage = log[Len(log)].stage)
    /\ \A j \in DOMAIN calls : CallPair(j) = CallPair(Len(calls)) => j = Len(calls)

\* Every pair of a run of several pairs has been evaluated, the last with
\* 6 chat calls although one of its resamples failed.
C24_Witness ==
    /\ CallEnded
    /\ AtStage("failure", "agreement") # {}
    /\ Cardinality(At("request")) = 6
    /\ Len(calls) > 1
    /\ Len(calls) = Len(df) * Len(metrics)

(***************************************************************************)
(* C25. Whenever the reflection chat request returns a response, the       *)
(* record's critique is that response, whole and unchanged, whether or not *)
(* a revised score was extracted from it.                                  *)
(***************************************************************************)
C25_CritiqueIsRawResponse ==
    /\ (InCall /\ ~IsNone(ReflectionText)) => frame.critique = ReflectionText
    /\ (CallEnded /\ ~IsNone(ReflectionText)) => Record.critique = ReflectionText

\* A record was returned with the response as its critique and no revised
\* score.
C25_Witness ==
    /\ CallEnded
    /\ ReflectionText = Some(TNoChange)
    /\ IsNone(Record.revised_score)
    /\ Record.critique = Some(TNoChange)

(***************************************************************************)
(* C26. evaluate_dataset writes to the file at csv_path only once, after   *)
(* every pair of the run has been evaluated: only the step from the end of *)
(* the rows loop changes the file, and it ends the run.  A run in which    *)
(* the evaluation of a pair raises leaves the file as it was before the    *)
(* run, whatever pairs completed before.                                   *)
(***************************************************************************)
C26_WriteOnceAfterAllPairs ==
    [][/\ csv' # csv =>
             /\ pc = "write"
             /\ pc' \in {"returned", "raised"}
             /\ Len(calls) = Len(df) * Len(metrics)
             /\ \A k \in DOMAIN calls : calls[k].returned
             /\ Len(scores) = Len(calls)
       /\ pc = "write" => pc' \in {"returned", "raised"}
       /\ (pc' = "raised" /\ pc # "write") =>
             /\ csv' = csv
             /\ At("abort")' # {}
       /\ (At("abort") # {} /\ runs' = runs) => (csv' = csv /\ pc' = "raised")]_vars

\* The evaluation of a pair raised after another pair of the run had
\* returned its record, and there is still no file.
C26_Witness ==
    /\ pc = "raised"
    /\ At("abort") # {}
    /\ Len(Produced) >= 1
    /\ csv = NoFile

\* evaluate_dataset has been called and has neither returned nor raised.
Running == pc \notin {"idle", "returned", "raised"}

(***************************************************************************)
(* C27. For a finite dataset and registry and a judge whose every attempt  *)
(* returns or raises, evaluate_dataset finishes (returns or raises), after *)
(* at most 6 chat calls per pair, each of at most 3 attempts.              *)
(***************************************************************************)
C27_RunTerminates ==
    /\ [](/\ Cardinality(At("request")) <= 6
          /\ Len(attempts) <= 3
          /\ attempt_number <= 3
          /\ chats <= 6 * MaxRuns * Len(dataset.rows) * Len(metrics))
    /\ Running ~> Finished

\* A run has finished whose last chat call took three attempts.
C27_Witness ==
    /\ Finished
    /\ CallEnded
    /\ Cardinality(At("request")) = 6
    /\ Len(attempts) = 3

====
